---- MODULE Spec2Model ----
(***************************************************************************)
(* Model of src/extract_instagram_enhanced.py: AdvancedInstagramExtractor  *)
(* (extract_instagram_info, the username/URL helpers, the bounded site     *)
(* crawler and the page scan) and the per-row workers of                   *)
(* process_file_advanced.                                                  *)
(*                                                                         *)
(* A Python str is a sequence of one-character strings.  None is the       *)
(* one-element sequence <<"None">> and a pandas NaN cell is <<"NaN">>;     *)
(* neither can be confused with a str because their element is not a       *)
(* single character.                                                       *)
(***************************************************************************)
EXTENDS Integers, Sequences, FiniteSets, TLC

\* ------------------------------------------------------------------------
\* Bounds of the model (not program constants)
\* ------------------------------------------------------------------------

\* Longest input of extract_instagram_info, counted in parts (see Parts).
MaxParts == 3

\* URLs of the crawled site are 0 .. NumUrls; 0 is the start URL.
NumUrls == 2

\* The extractor is constructed with max_pages in 1 .. MaxPagesBound and
\* max_depth in 0 .. MaxDepthBound.
MaxPagesBound == 4

MaxDepthBound == 2

\* Longest anchor list of a fetched page.
MaxAnchors == 2

\* The threads of the pool of process_file_advanced.
NumWorkers == 2

\* ------------------------------------------------------------------------
\* Strings
\* ------------------------------------------------------------------------

None == <<"None">>

NaN == <<"NaN">>

Min(S) == CHOOSE x \in S : \A y \in S : x <= y

LowerLetters ==
    <<"a","b","c","d","e","f","g","h","i","j","k","l","m",
      "n","o","p","q","r","s","t","u","v","w","x","y","z">>

UpperLetters ==
    <<"A","B","C","D","E","F","G","H","I","J","K","L","M",
      "N","O","P","Q","R","S","T","U","V","W","X","Y","Z">>

\* The character class [a-zA-Z0-9_.] of every username pattern.
HandleChars ==
    {"a","b","c","d","e","f","g","h","i","j","k","l","m",
     "n","o","p","q","r","s","t","u","v","w","x","y","z",
     "A","B","C","D","E","F","G","H","I","J","K","L","M",
     "N","O","P","Q","R","S","T","U","V","W","X","Y","Z",
     "0","1","2","3","4","5","6","7","8","9","_","."}

\* The characters \s matches and str.strip()/str.split() remove.
Whitespace == {" ", "\t", "\n", "\r"}

\* str.lower(), one character.
UpperSet == {UpperLetters[i] : i \in 1..26}

LowerChar(c) ==
    IF c \in UpperSet
    THEN LowerLetters[CHOOSE i \in 1..26 : UpperLetters[i] = c]
    ELSE c

\* str.lower()
Lower(s) == [i \in 1..Len(s) |-> LowerChar(s[i])]

\* The literal lit occurs in s at position i.
MatchAt(s, i, lit) ==
    /\ i >= 1
    /\ i + Len(lit) - 1 <= Len(s)
    /\ \A k \in 1..Len(lit) : s[i + k - 1] = lit[k]

\* re.search(lit, s) for a literal pattern; also "lit in s".
Contains(s, lit) == \E i \in 1..Len(s) : MatchAt(s, i, lit)

\* str.startswith / str.endswith
StartsWith(s, lit) == MatchAt(s, 1, lit)

EndsWith(s, lit) == MatchAt(s, Len(s) - Len(lit) + 1, lit)

\* Length of the longest run of handle characters of s that starts at i.
RECURSIVE RunLen(_, _)
RunLen(s, i) ==
    IF i > Len(s) \/ s[i] \notin HandleChars THEN 0 ELSE 1 + RunLen(s, i + 1)

\* re.sub(r'\s+', '', s): s without its whitespace characters.
RECURSIVE RemoveWhitespace(_)
RemoveWhitespace(s) ==
    IF s = <<>> THEN <<>>
    ELSE IF Head(s) \in Whitespace THEN RemoveWhitespace(Tail(s))
    ELSE <<Head(s)>> \o RemoveWhitespace(Tail(s))

\* str.strip()
RECURSIVE LStrip(_)
LStrip(s) ==
    IF s # <<>> /\ Head(s) \in Whitespace THEN LStrip(Tail(s)) ELSE s

RECURSIVE RStrip(_)
RStrip(s) ==
    IF s # <<>> /\ s[Len(s)] \in Whitespace
    THEN RStrip(SubSeq(s, 1, Len(s) - 1)) ELSE s

Strip(s) == RStrip(LStrip(s))

\* s.split(c)[0]: the text before the first c.
BeforeFirst(s, c) ==
    IF \E i \in 1..Len(s) : s[i] = c
    THEN SubSeq(s, 1, Min({i \in 1..Len(s) : s[i] = c}) - 1)
    ELSE s

\* s.rstrip('/')
RECURSIVE RStripSlash(_)
RStripSlash(s) ==
    IF s # <<>> /\ s[Len(s)] = "/"
    THEN RStripSlash(SubSeq(s, 1, Len(s) - 1)) ELSE s

\* ------------------------------------------------------------------------
\* Literals of the source's patterns
\* ------------------------------------------------------------------------

InstagramCom == <<"i","n","s","t","a","g","r","a","m",".","c","o","m">>

InstagrAm == <<"i","n","s","t","a","g","r",".","a","m">>

InstagramComSlash == InstagramCom \o <<"/">>

InstagrAmSlash == InstagrAm \o <<"/">>

HttpSlashes == <<"h","t","t","p",":","/","/">>

HttpsSlashes == <<"h","t","t","p","s",":","/","/">>

WwwDot == <<"w","w","w",".">>

HttpsColon == <<"h","t","t","p","s",":">>

Http == <<"h","t","t","p">>

CanonicalHost == HttpsSlashes \o WwwDot \o InstagramCom

CanonicalPrefix == CanonicalHost \o <<"/">>

IgLabel == <<"i","g",":"," ">>

InstagramLabel == <<"i","n","s","t","a","g","r","a","m",":"," ">>

InstaLabel == <<"i","n","s","t","a",":"," ">>

DotCom == <<".","c","o","m">>

DotComBr == <<".","c","o","m",".","b","r">>

DotOrg == <<".","o","r","g">>

DotNet == <<".","n","e","t">>

\* self.invalid_patterns; r'\.com(?:\.br)?' matches exactly where '.com'
\* does, and r'\s+' is the test for a whitespace character made in
\* _is_valid_instagram_username below.
invalid_patterns ==
    {<<".","c","o","m">>,
     <<"g","m","a","i","l">>,
     <<"g","o","o","g","l","e">>,
     <<"o","u","t","l","o","o","k">>,
     <<"h","o","t","m","a","i","l">>,
     <<"y","a","h","o","o">>,
     <<"e","m","a","i","l">>,
     <<"c","o","n","t","a","c","t">>,
     <<"c","o","n","t","a","t","o">>,
     <<"i","n","f","o">>,
     <<"a","d","m","i","n">>,
     <<"w","e","b">>,
     <<"s","i","t","e">>,
     <<"w","w","w">>,
     <<"h","t","t","p">>,
     <<"h","t","t","p","s">>,
     <<"m","a","i","l","t","o",":">>,
     <<"@","g","m","a","i","l",".","c","o","m">>,
     <<"@","h","o","t","m","a","i","l",".","c","o","m">>,
     <<"@","o","u","t","l","o","o","k",".","c","o","m">>,
     <<"@","y","a","h","o","o",".","c","o","m">>,
     <<"?">>,
     <<"&">>,
     <<"=">>,
     <<"%">>}

\* The path segments _extract_username_from_url refuses as usernames.
ReservedSegments ==
    {<<"p">>,
     <<"e","x","p","l","o","r","e">>,
     <<"d","i","r","e","c","t","o","r","y">>,
     <<"a","c","c","o","u","n","t","s">>,
     <<"r","e","e","l","s">>,
     <<"s","t","o","r","i","e","s">>}

\* The {1,30} of every username pattern and the length test of the validator.
MaxUsernameLen == 30

\* ------------------------------------------------------------------------
\* Pattern matching
\* ------------------------------------------------------------------------

\* The group ([a-zA-Z0-9_.]{1,30}) matched greedily at position i of s
\* (which holds a handle character).
Capture(s, i) ==
    LET n == RunLen(s, i)
    IN  SubSeq(s, i, i + (IF n > MaxUsernameLen THEN MaxUsernameLen ELSE n) - 1)

\* First match of  lit([a-zA-Z0-9_.]{1,30})  in s, re.IGNORECASE, lit in
\* lower case: the group of the leftmost match, or None.
CaptureAfter(s, lit) ==
    LET lower == Lower(s)
        hits == {i \in 1..Len(s) :
                    /\ MatchAt(lower, i, lit)
                    /\ RunLen(s, i + Len(lit)) >= 1}
    IN  IF hits = {} THEN None ELSE Capture(s, Min(hits) + Len(lit))

\* First match of  https?://(?:www\.)?instagram\.com/([a-zA-Z0-9_.]{1,30})/?
FullUrlCapture(s) ==
    LET prefixes == {HttpSlashes \o InstagramComSlash,
                     HttpSlashes \o WwwDot \o InstagramComSlash,
                     HttpsSlashes \o InstagramComSlash,
                     HttpsSlashes \o WwwDot \o InstagramComSlash}
        lower == Lower(s)
        hits == {<<i, p>> \in (1..Len(s)) \X prefixes :
                    /\ MatchAt(lower, i, p)
                    /\ RunLen(s, i + Len(p)) >= 1}
        first == Min({h[1] : h \in hits})
        pfx == CHOOSE p \in prefixes : <<first, p>> \in hits
    IN  IF hits = {} THEN None ELSE Capture(s, first + Len(pfx))

\* First match of  /([a-zA-Z0-9_.]{1,30})/?(?:\?.*)?$ : a slash, a whole run
\* of 1 to 30 handle characters, an optional slash, an optional query that
\* runs to the end of the string.
TrailingSegmentCapture(s) ==
    LET \* $ : the end of the string, or the newline that ends it
        AtEnd(k) == k > Len(s) \/ (k = Len(s) /\ s[k] = "\n")
        \* (?:\?.*)?$ at position k
        QueryOk(k) ==
            \/ AtEnd(k)
            \/ /\ k <= Len(s)
               /\ s[k] = "?"
               /\ \A m \in (k + 1)..(Len(s) - 1) : s[m] # "\n"
        \* /?(?:\?.*)?$ at position j, the position after the run
        RestOk(j) ==
            \/ j <= Len(s) /\ s[j] = "/" /\ QueryOk(j + 1)
            \/ QueryOk(j)
        hits == {i \in 1..Len(s) :
                    /\ s[i] = "/"
                    /\ RunLen(s, i + 1) >= 1
                    /\ RunLen(s, i + 1) <= MaxUsernameLen
                    /\ RestOk(i + 1 + RunLen(s, i + 1))}
    IN  IF hits = {} THEN None ELSE Capture(s, Min(hits) + 1)

\* self.instagram_patterns, in order: re.search(pattern, url, re.IGNORECASE)
\* and group(1), or None.
instagram_patterns(k, url) ==
    CASE k = 1 -> CaptureAfter(url, InstagramComSlash)
      [] k = 2 -> CaptureAfter(url, InstagrAmSlash)
      [] k = 3 -> FullUrlCapture(url)
      [] k = 4 -> TrailingSegmentCapture(url)

\* First match of  @([a-zA-Z0-9_.]{1,30})(?![a-zA-Z0-9_.]) : an at sign and a
\* whole run of 1 to 30 handle characters.
AtHandleCapture(s) ==
    LET hits == {i \in 1..Len(s) :
                    /\ s[i] = "@"
                    /\ RunLen(s, i + 1) >= 1
                    /\ RunLen(s, i + 1) <= MaxUsernameLen}
    IN  IF hits = {} THEN None ELSE Capture(s, Min(hits) + 1)

\* First match of  label @?([a-zA-Z0-9_.]{1,30}) , re.IGNORECASE.
LabelCapture(s, label) ==
    LET Start(i) ==
            IF i + Len(label) <= Len(s) /\ s[i + Len(label)] = "@"
               /\ RunLen(s, i + Len(label) + 1) >= 1
            THEN i + Len(label) + 1
            ELSE i + Len(label)
        lower == Lower(s)
        hits == {i \in 1..Len(s) :
                    /\ MatchAt(lower, i, label)
                    /\ RunLen(s, Start(i)) >= 1}
    IN  IF hits = {} THEN None ELSE Capture(s, Start(Min(hits)))

\* The patterns of _extract_username_from_text, in order: the first element
\* of re.findall(pattern, text, re.IGNORECASE), or None.
text_patterns(k, text) ==
    CASE k = 1 -> AtHandleCapture(text)
      [] k = 2 -> CaptureAfter(text, InstagramComSlash)
      [] k = 3 -> CaptureAfter(text, InstagrAmSlash)
      [] k = 4 -> LabelCapture(text, IgLabel)
      [] k = 5 -> LabelCapture(text, InstagramLabel)
      [] k = 6 -> LabelCapture(text, InstaLabel)

\* ------------------------------------------------------------------------
\* AdvancedInstagramExtractor: the pure helpers
\* ------------------------------------------------------------------------

_is_valid_instagram_username(username) ==
    LET username_lower == Lower(username)
    IN  /\ \A pattern \in invalid_patterns : ~Contains(username_lower, pattern)
        /\ \A i \in 1..Len(username_lower) : username_lower[i] \notin Whitespace
        /\ ~(/\ Contains(username, <<"@">>)
             /\ \/ EndsWith(username, DotCom)
                \/ EndsWith(username, DotComBr)
                \/ EndsWith(username, DotOrg)
                \/ EndsWith(username, DotNet))
        /\ ~StartsWith(username, HttpSlashes)
        /\ ~StartsWith(username, HttpsSlashes)
        /\ ~StartsWith(username, WwwDot)
        /\ Len(username) <= MaxUsernameLen
        \* re.match(r'^[a-zA-Z0-9_.]+$'): $ also matches before a final newline
        /\ LET core == IF username # <<>> /\ username[Len(username)] = "\n"
                       THEN SubSeq(username, 1, Len(username) - 1)
                       ELSE username
           IN  /\ core # <<>>
               /\ \A i \in 1..Len(core) : core[i] \in HandleChars

_is_direct_instagram_url(url) ==
    LET url_lower == Lower(url)
        core == IF url_lower # <<>> /\ url_lower[Len(url_lower)] = "\n"
                THEN SubSeq(url_lower, 1, Len(url_lower) - 1)
                ELSE url_lower
    IN  \/ Contains(url_lower, InstagramCom)
        \/ Contains(url_lower, InstagrAm)
        \* r'^@[a-zA-Z0-9_.]+$'
        \/ /\ Len(core) >= 2
           /\ core[1] = "@"
           /\ RunLen(core, 2) = Len(core) - 1

\* s.split()[0]: the first whitespace-delimited token of s.  (The source
\* raises IndexError when there is none; _is_direct_instagram_url excludes
\* that for every string _normalize_instagram_url is called with.)
FirstToken(s) ==
    LET t == LStrip(s)
        stops == {i \in 1..Len(t) : t[i] \in Whitespace}
    IN  IF stops = {} THEN t ELSE SubSeq(t, 1, Min(stops) - 1)

_normalize_instagram_url(url) ==
    LET url_lower == Lower(url)
        schemed ==
            IF StartsWith(url_lower, <<"/", "/">>) THEN HttpsColon \o url
            ELSE IF StartsWith(url_lower, <<"/">>) THEN CanonicalHost \o url
            ELSE IF ~StartsWith(url_lower, Http) THEN HttpsSlashes \o url
            ELSE url
    IN  IF StartsWith(url_lower, <<"@">>)
        THEN CanonicalPrefix \o FirstToken(Tail(url_lower)) \o <<"/">>
        ELSE IF Contains(schemed, <<"?">>)
             THEN RStripSlash(BeforeFirst(schemed, "?"))
             ELSE schemed

\* The clean-up of a captured group: split('?')[0], split('#')[0], rstrip('/').
CleanUsername(username) ==
    RStripSlash(BeforeFirst(BeforeFirst(username, "?"), "#"))

_extract_username_from_url(url) ==
    LET \* the first cleaned group that is not a reserved segment
        FirstGood(username) ==
            LET good == {k \in 1..4 :
                            /\ username[k] # None
                            /\ Lower(username[k]) \notin ReservedSegments}
            IN  IF good = {} THEN None ELSE username[Min(good)]
        Cleaned(match) ==
            FirstGood([k \in 1..4 |->
                          IF match[k] = None THEN None
                          ELSE CleanUsername(match[k])])
    IN  Cleaned([k \in 1..4 |-> instagram_patterns(k, url)])

_extract_username_from_text(text) ==
    LET \* the first stripped group that
        \* re.match(r'^[a-zA-Z0-9_.]{1,30}$', username) accepts
        FirstGood(username) ==
            LET good == {k \in 1..6 :
                            /\ username[k] # None
                            /\ Len(username[k]) >= 1
                            /\ Len(username[k]) <= MaxUsernameLen
                            /\ \A i \in 1..Len(username[k]) :
                                   username[k][i] \in HandleChars}
            IN  IF good = {} THEN None ELSE username[Min(good)]
        Stripped(match) ==
            FirstGood([k \in 1..6 |->
                          IF match[k] = None THEN None ELSE Strip(match[k])])
    IN  Stripped([k \in 1..6 |-> text_patterns(k, text)])

\* ------------------------------------------------------------------------
\* URLs
\* ------------------------------------------------------------------------

SchemeSep == <<":", "/", "/">>

\* Position of the first character after "://", or 0 when url has no scheme.
AfterScheme(url) ==
    LET hits == {i \in 1..Len(url) : MatchAt(url, i, SchemeSep)}
    IN  IF hits = {} THEN 0 ELSE Min(hits) + 3

\* Position of the first character after the host (Len(url) + 1 if none).
AfterNetloc(url) ==
    LET stops == {i \in AfterScheme(url)..Len(url) : url[i] \in {"/", "?", "#"}}
    IN  IF stops = {} THEN Len(url) + 1 ELSE Min(stops)

\* urlparse(url).netloc
Netloc(url) ==
    IF AfterScheme(url) = 0 THEN <<>>
    ELSE SubSeq(url, AfterScheme(url), AfterNetloc(url) - 1)

\* f'{parsed.scheme}://{parsed.netloc}'
SchemeAndNetloc(url) == SubSeq(url, 1, AfterNetloc(url) - 1)

\* urljoin(base_url, url) for a plain relative path (no scheme, no leading
\* slash, no dot segments, no query or fragment): the base up to the last
\* slash of its path, then url.
urljoin(base_url, url) ==
    LET stops == {i \in AfterNetloc(base_url)..Len(base_url) :
                     base_url[i] \in {"?", "#"}}
        pathEnd == IF stops = {} THEN Len(base_url) ELSE Min(stops) - 1
        slashes == {i \in AfterNetloc(base_url)..pathEnd : base_url[i] = "/"}
        dir == IF slashes = {} THEN SchemeAndNetloc(base_url) \o <<"/">>
               ELSE SubSeq(base_url, 1,
                           CHOOSE i \in slashes : \A j \in slashes : j <= i)
    IN  IF url = <<>> THEN base_url ELSE dir \o url

_normalize_url(url, base_url) ==
    IF StartsWith(url, HttpSlashes) \/ StartsWith(url, HttpsSlashes) THEN url
    ELSE IF StartsWith(url, <<"/", "/">>) THEN HttpsColon \o url
    ELSE IF StartsWith(url, <<"/">>) THEN SchemeAndNetloc(base_url) \o url
    ELSE urljoin(base_url, url)

\* ------------------------------------------------------------------------
\* The crawled site: what session.get and BeautifulSoup hand to the crawler
\* ------------------------------------------------------------------------

SiteRoot == HttpSlashes \o <<"s", ".", "i", "o">>

PageNames == <<"1", "2", "3", "4", "5", "6", "7", "8", "9">>

\* The absolute URLs of the site; SiteUrl(0) is its home page.
SiteUrl(n) == IF n = 0 THEN SiteRoot ELSE SiteRoot \o <<"/", PageNames[n]>>

SiteUrls == {SiteUrl(n) : n \in 0..NumUrls}

\* <a href=...>text</a>
Anchor(href, text) == [href |-> href, text |-> text]

\* The anchors a page of the site is built from: links to the pages of the
\* site (root-relative, and absolute to the home page), a link that leaves
\* the site, a fragment link, profile links with a valid and with a
\* denylisted username, and a link whose text carries a handle.
AnchorPool ==
    {Anchor(<<"/", PageNames[n]>>, <<>>) : n \in 1..NumUrls}
    \cup {Anchor(SiteRoot, <<"h", "o", "m", "e">>),
          Anchor(HttpSlashes \o <<"t", ".", "i", "o", "/">>, <<>>),
          Anchor(<<"#", "t", "o", "p">>, <<>>),
          Anchor(HttpsSlashes \o InstagramComSlash \o <<"a">>, <<>>),
          Anchor(HttpsSlashes \o InstagramComSlash \o <<"w", "e", "b">>, <<>>),
          Anchor(<<"/", "1">>, <<" ", "@", "b", " ">>)}

AnchorLists ==
    UNION {[1..n -> AnchorPool] : n \in 0..MaxAnchors}

\* What follows the anchors of a page: the text of one element that a social
\* selector matches, the rest of the visible text, and the content
\* attributes of the meta tags.
PageTails ==
    {[social |-> <<>>, rest |-> <<>>, metas |-> <<>>],
     [social |-> <<>>, rest |-> <<"i", "g", ":", " ", "c">>, metas |-> <<>>],
     [social |-> <<>>, rest |-> <<>>, metas |-> << <<>>, <<"@", "d">> >>],
     [social |-> <<"@", "e">>, rest |-> <<>>, metas |-> <<>>],
     [social |-> <<"@", "e">>, rest |-> <<"w", "e", "b">>, metas |-> <<>>]}

\* A fetched page as BeautifulSoup presents it: its anchors in document
\* order, then the rest of the document.
Pages ==
    {[anchors |-> a, social |-> t.social, rest |-> t.rest, metas |-> t.metas] :
        a \in AnchorLists, t \in PageTails}

RECURSIVE ConcatTexts(_)
ConcatTexts(anchors) ==
    IF anchors = <<>> THEN <<>>
    ELSE Head(anchors).text \o ConcatTexts(Tail(anchors))

\* soup.get_text()
PageText(page) == ConcatTexts(page.anchors) \o page.social \o page.rest

\* The Optional[Dict] _find_instagram_in_page returns: NoInfo for None, a
\* one-element sequence holding the dictionary otherwise.
NoInfo == <<>>

Info(url, username, status, note, detail) ==
    << [url |-> url, username |-> username, status |-> status,
        notes |-> <<note, detail>>] >>

ProfileUrl(username) == CanonicalPrefix \o username \o <<"/">>

\* One turn of the loop over soup.find_all('a', href=True): the href, then
\* the text of the anchor; NoInfo when neither yields a valid username.
AnchorInfo(link, page_url) ==
    LET FromText(link_text, text_username) ==
            IF /\ text_username # None
               /\ _is_valid_instagram_username(text_username)
            THEN Info(ProfileUrl(text_username), text_username,
                      "found_in_link_text", "Encontrado no texto do link",
                      link_text)
            ELSE NoInfo
        FromHref(href, normalized_url, username, link_text) ==
            IF /\ _is_direct_instagram_url(href)
               /\ username # None
               /\ username # <<>>
               /\ _is_valid_instagram_username(username)
            THEN Info(normalized_url, username, "found_in_site",
                      "Encontrado em link na pagina", <<>>)
            ELSE FromText(link_text, _extract_username_from_text(link_text))
        Normalized(href, normalized_url) ==
            FromHref(href, normalized_url,
                     _extract_username_from_url(normalized_url),
                     Strip(link.text))
        Href(href) == Normalized(href, _normalize_url(href, page_url))
    IN  Href(Strip(link.href))

\* A variant of TextInfo: the username extracted from the text is returned
\* without the test of _is_valid_instagram_username.
TextInfoUnvalidated(text, status, note) ==
    LET Extracted(username) ==
            IF username # None
            THEN Info(ProfileUrl(username), username, status, note, <<>>)
            ELSE NoInfo
    IN  Extracted(_extract_username_from_text(text))

\* A username extracted from text and validated, as every later stage does.
TextInfo(text, status, note) ==
    LET Validated(username) ==
            IF username # None /\ _is_valid_instagram_username(username)
            THEN Info(ProfileUrl(username), username, status, note, <<>>)
            ELSE NoInfo
    IN  Validated(_extract_username_from_text(text))

\* The first result of a sequence of results that is not NoInfo.
FirstInfo(infos) ==
    LET hits == {i \in 1..Len(infos) : infos[i] # NoInfo}
    IN  IF hits = {} THEN NoInfo ELSE infos[Min(hits)]

_find_instagram_in_page(page, page_url) ==
    FirstInfo(
        [i \in 1..Len(page.anchors) |-> AnchorInfo(page.anchors[i], page_url)]
        \o << TextInfo(PageText(page), "found_in_page_text",
                       "Encontrado no texto da pagina") >>
        \o [i \in 1..Len(page.metas) |->
               IF page.metas[i] = <<>> THEN NoInfo
               ELSE TextInfo(page.metas[i], "found_in_meta_tag",
                             "Encontrado em meta tag")]
        \o << TextInfo(page.social, "found_in_social_section",
                       "Encontrado na secao") >>)

\* The set _extract_links collects (returned as a list in arbitrary order).
_extract_links(page, base_url) ==
    LET Skipped(href) ==
            \/ href = <<>>
            \/ StartsWith(href, <<"#">>)
            \/ StartsWith(href, <<"j","a","v","a","s","c","r","i","p","t",":">>)
            \/ StartsWith(href, <<"m","a","i","l","t","o",":">>)
            \/ StartsWith(href, <<"t","e","l",":">>)
        SameDomain(full_url) ==
            /\ Netloc(base_url) # <<>>
            /\ Netloc(full_url) # <<>>
            /\ Contains(Netloc(full_url), Netloc(base_url))
    IN  {_normalize_url(Strip(page.anchors[i].href), base_url) :
            i \in {j \in 1..Len(page.anchors) :
                     /\ ~Skipped(Strip(page.anchors[j].href))
                     /\ SameDomain(_normalize_url(Strip(page.anchors[j].href),
                                                  base_url))}}

\* The orders list(links) can give the set links.
RECURSIVE Orders(_)
Orders(links) ==
    IF links = {} THEN {<<>>}
    ELSE UNION {{<<l>> \o rest : rest \in Orders(links \ {l})} : l \in links}

\* What one successful session.get can hand to the loop body: whether
\* parsing the body raises, the result of _find_instagram_in_page and the
\* list _extract_links returns, both computed with the final URL
\* (response.url, after redirects inside the site), and that URL where the
\* loop body reads it again (found_on_page, line 360).
OkResponses ==
    LET Scanned(page, final_url, info) ==
            IF info # NoInfo
            THEN {[kind |-> "ok", url |-> final_url, fault |-> FALSE,
                   info |-> info, new_links |-> <<>>]}
            ELSE {[kind |-> "ok", url |-> <<>>, fault |-> FALSE,
                   info |-> NoInfo, new_links |-> l] :
                     l \in Orders(_extract_links(page, final_url))}
    IN  UNION {Scanned(page, final_url,
                       _find_instagram_in_page(page, final_url)) :
                  page \in Pages, final_url \in SiteUrls}

\* A body that BeautifulSoup or the scan cannot process.
FaultResponses ==
    {[kind |-> "ok", url |-> <<>>, fault |-> TRUE,
      info |-> NoInfo, new_links |-> <<>>]}

\* A status code other than 200, and session.get raising (timeout,
\* connection error, ...).
FailedResponses ==
    {[kind |-> k, url |-> <<>>, fault |-> FALSE,
      info |-> NoInfo, new_links |-> <<>>] : k \in {"status", "exception"}}

\* ------------------------------------------------------------------------
\* _crawl_site_for_instagram: the session and one turn of its loop
\* ------------------------------------------------------------------------

\* Lines 319-326: the visited set cleared, the frontier seeded with the
\* start URL at depth 0, the page counter at 0.  returned/info hold the
\* value of a return statement once one has run; raised tells that an
\* exception has left the function.
StartSession(start_url) ==
    [visited_urls  |-> {},
     urls_to_visit |-> << << IF \/ StartsWith(start_url, HttpSlashes)
                                \/ StartsWith(start_url, HttpsSlashes)
                             THEN start_url
                             ELSE HttpSlashes \o start_url, 0 >> >>,
     pages_scanned |-> 0,
     returned      |-> FALSE,
     raised        |-> FALSE,
     info          |-> NoInfo]

\* while urls_to_visit and pages_scanned < self.max_pages
LoopCondition(session, max_pages) ==
    /\ ~session.returned
    /\ ~session.raised
    /\ session.urls_to_visit # <<>>
    /\ session.pages_scanned < max_pages

\* A variant of PopIndex: urls_to_visit.pop(), the frontier used as a stack.
PopLast(urls_to_visit) == Len(urls_to_visit)

\* urls_to_visit.pop(0): the position popped, the entry it holds, and what
\* the pop leaves.
PopIndex(urls_to_visit) == 1

PoppedEntry(urls_to_visit) == urls_to_visit[PopIndex(urls_to_visit)]

AfterPop(urls_to_visit) ==
    SubSeq(urls_to_visit, 1, PopIndex(urls_to_visit) - 1)
    \o SubSeq(urls_to_visit, PopIndex(urls_to_visit) + 1, Len(urls_to_visit))

\* A variant of SkipsEntry: only the depth is tested.
SkipsEntryDepthOnly(session, max_depth) ==
    LET depth == PoppedEntry(session.urls_to_visit)[2]
    IN  depth > max_depth

\* The two tests that end a turn before any fetch.
SkipsEntry(session, max_depth) ==
    LET current_url == PoppedEntry(session.urls_to_visit)[1]
        depth == PoppedEntry(session.urls_to_visit)[2]
    IN  current_url \in session.visited_urls \/ depth > max_depth

\* A variant of EnqueueLinks: the test on the depth is depth <= max_depth.
EnqueueLinksAtMaxDepth(urls_to_visit, new_links, depth, visited_urls, max_depth) ==
    IF depth <= max_depth
    THEN urls_to_visit \o
         SelectSeq([i \in 1..Len(new_links) |-> <<new_links[i], depth + 1>>],
                   LAMBDA e : e[1] \notin visited_urls)
    ELSE urls_to_visit

\* Lines 364-368: the harvested links appended at depth + 1.
EnqueueLinks(urls_to_visit, new_links, depth, visited_urls, max_depth) ==
    IF depth < max_depth
    THEN urls_to_visit \o
         SelectSeq([i \in 1..Len(new_links) |-> <<new_links[i], depth + 1>>],
                   LAMBDA e : e[1] \notin visited_urls)
    ELSE urls_to_visit

\* A variant of OnException: the handler lets the exception leave the
\* function.
OnExceptionAborts(session) ==
    [session EXCEPT !.urls_to_visit = AfterPop(session.urls_to_visit),
                    !.raised = TRUE]

\* except Exception (lines 373-375): the turn ends, the loop goes on.
\* Every statement that can raise sits inside this try.
OnException(session) ==
    [session EXCEPT !.urls_to_visit = AfterPop(session.urls_to_visit)]

\* One turn of the loop (lines 329-375) on the response session.get gives
\* when the turn fetches.
LoopBody(session, max_depth, response) ==
    LET current_url == PoppedEntry(session.urls_to_visit)[1]
        depth == PoppedEntry(session.urls_to_visit)[2]
        popped == [session EXCEPT
                      !.urls_to_visit = AfterPop(session.urls_to_visit)]
        counted == [popped EXCEPT
                      !.pages_scanned = session.pages_scanned + 1,
                      !.visited_urls = session.visited_urls \cup {current_url}]
    IN  IF SkipsEntry(session, max_depth) THEN popped
        ELSE IF response.kind = "exception" THEN OnException(session)
        ELSE IF response.kind # "ok" THEN popped
        ELSE IF response.fault
             THEN [OnException(session) EXCEPT
                      !.pages_scanned = counted.pages_scanned,
                      !.visited_urls = counted.visited_urls]
        ELSE IF response.info # NoInfo
             THEN [counted EXCEPT
                      !.returned = TRUE,
                      !.info = << [url |-> response.info[1].url,
                                   username |-> response.info[1].username,
                                   status |-> response.info[1].status,
                                   notes |-> response.info[1].notes,
                                   pages_scanned |-> counted.pages_scanned,
                                   found_on_page |-> response.url] >>]
        ELSE [counted EXCEPT
                 !.urls_to_visit =
                     EnqueueLinks(popped.urls_to_visit, response.new_links,
                                  depth, counted.visited_urls, max_depth)]

\* ------------------------------------------------------------------------
\* extract_instagram_info
\* ------------------------------------------------------------------------

NoNotes == <<"", <<>>>>

\* A variant of InitialResult: no status until a step assigns one.
InitialResultNoStatus ==
    [instagram_url      |-> <<>>,
     instagram_username |-> <<>>,
     status             |-> "",
     notes              |-> NoNotes,
     pages_scanned      |-> 0,
     found_on_page      |-> <<>>]

\* Lines 103-111 (the original_url entry is the argument itself).
InitialResult ==
    [instagram_url      |-> <<>>,
     instagram_username |-> <<>>,
     status             |-> "no_instagram",
     notes              |-> NoNotes,
     pages_scanned      |-> 0,
     found_on_page      |-> <<>>]

\* not url or pd.isna(url) or str(url).strip() == ''
IsEmptyInput(url) == url = NaN \/ url = <<>> \/ Strip(url) = <<>>

\* str(url).strip() with every run of whitespace removed
CleanInput(url) == RemoveWhitespace(Strip(url))

\* A variant of DirectResult: the rejected username is stored as well.
DirectResultKeepsUsername(url_str) ==
    LET Extracted(normalized_url, username) ==
            IF /\ username # None
               /\ username # <<>>
               /\ _is_valid_instagram_username(username)
            THEN [InitialResult EXCEPT
                     !.instagram_url = normalized_url,
                     !.instagram_username = username,
                     !.status = "found_direct",
                     !.notes = <<"Link direto do Instagram", <<>>>>]
            ELSE IF username # None /\ username # <<>>
            THEN [InitialResult EXCEPT
                     !.instagram_url = normalized_url,
                     !.instagram_username = username,
                     !.status = "invalid_username",
                     !.notes = <<"Nome de usuario invalido", username>>]
            ELSE [InitialResult EXCEPT !.instagram_url = normalized_url]
        Normalized(normalized_url) ==
            Extracted(normalized_url,
                      _extract_username_from_url(normalized_url))
    IN  Normalized(_normalize_instagram_url(url_str))

\* Lines 123-134: a direct Instagram link.
DirectResult(url_str) ==
    LET Extracted(normalized_url, username) ==
            IF /\ username # None
               /\ username # <<>>
               /\ _is_valid_instagram_username(username)
            THEN [InitialResult EXCEPT
                     !.instagram_url = normalized_url,
                     !.instagram_username = username,
                     !.status = "found_direct",
                     !.notes = <<"Link direto do Instagram", <<>>>>]
            ELSE IF username # None /\ username # <<>>
            THEN [InitialResult EXCEPT
                     !.instagram_url = normalized_url,
                     !.status = "invalid_username",
                     !.notes = <<"Nome de usuario invalido", username>>]
            ELSE [InitialResult EXCEPT !.instagram_url = normalized_url]
        Normalized(normalized_url) ==
            Extracted(normalized_url,
                      _extract_username_from_url(normalized_url))
    IN  Normalized(_normalize_instagram_url(url_str))

\* Lines 137-147: a username in the text.
TextResult(username_from_text) ==
    IF _is_valid_instagram_username(username_from_text)
    THEN [InitialResult EXCEPT
             !.instagram_username = username_from_text,
             !.instagram_url = ProfileUrl(username_from_text),
             !.status = "found_from_text",
             !.notes = <<"Extraido de texto com @", <<>>>>]
    ELSE [InitialResult EXCEPT
             !.status = "invalid_username_from_text",
             !.notes = <<"Nome de usuario invalido extraido de texto",
                         username_from_text>>]

\* Lines 171-174: an exception left _crawl_site_for_instagram.
CrawlError ==
    [InitialResult EXCEPT
        !.status = "crawl_error",
        !.notes = <<"Erro na varredura", <<>>>>]

\* Lines 154-169: the result built from what _crawl_site_for_instagram
\* returned.
CrawlResult(instagram_info) ==
    IF instagram_info # NoInfo
    THEN IF _is_valid_instagram_username(instagram_info[1].username)
         THEN [InitialResult EXCEPT
                  !.instagram_url = instagram_info[1].url,
                  !.instagram_username = instagram_info[1].username,
                  !.status = instagram_info[1].status,
                  !.notes = instagram_info[1].notes,
                  !.pages_scanned = instagram_info[1].pages_scanned,
                  !.found_on_page = instagram_info[1].found_on_page]
         ELSE [InitialResult EXCEPT
                  !.status = "invalid_username_crawled",
                  !.notes = <<"Nome de usuario invalido encontrado",
                              instagram_info[1].username>>,
                  !.pages_scanned = instagram_info[1].pages_scanned]
    ELSE [InitialResult EXCEPT
             !.status = "not_found_after_scan",
             \* f'Varridas {result.get("pages_scanned", 0)} ...': the field
             \* still holds its initial 0 here
             !.notes = <<"Varridas N paginas, Instagram nao encontrado",
                         <<"0">>>>]

\* True when extract_instagram_info returns before step 3 (the crawl).
ReturnsEarly(url) ==
    \/ IsEmptyInput(url)
    \/ _is_direct_instagram_url(CleanInput(url))
    \/ _extract_username_from_text(CleanInput(url)) # None

\* The result of the steps before the crawl.
EarlyResult(url) ==
    IF IsEmptyInput(url) THEN [InitialResult EXCEPT !.status = "empty"]
    ELSE IF _is_direct_instagram_url(CleanInput(url))
         THEN DirectResult(CleanInput(url))
    ELSE TextResult(_extract_username_from_text(CleanInput(url)))

\* ------------------------------------------------------------------------
\* Inputs
\* ------------------------------------------------------------------------

\* The pieces the inputs of extract_instagram_info are built from.
Parts ==
    {InstagramComSlash, <<"@">>, <<"a">>, <<"A">>, <<"p">>,
     <<"w", "e", "b">>, <<" ">>}

RECURSIVE Flatten(_)
Flatten(parts) ==
    IF parts = <<>> THEN <<>> ELSE Head(parts) \o Flatten(Tail(parts))

PartStrings ==
    {Flatten(ps) : ps \in UNION {[1..n -> Parts] : n \in 0..MaxParts}}

\* Inputs that name the crawled site: every input that reaches the crawl
\* drives the same loop, whose only use of the input is the start URL.
SiteInputs == {<<"s", ".", "i", "o">>, SiteRoot}

\* Inputs that name a handle after one of the labels of
\* _extract_username_from_text: 'ig: a', 'instagram: a' and 'insta: a'.
LabelInputs == {label \o <<"a">> : label \in {IgLabel, InstagramLabel, InstaLabel}}

\* The inputs of PartStrings that are settled without crawling.
EarlyInputs == {NaN} \cup {s \in PartStrings : ReturnsEarly(s)}

\* The inputs of the model: an empty cell, every string of parts that
\* extract_instagram_info settles without crawling, and the site inputs.
Inputs == EarlyInputs \cup SiteInputs

\* EarlyResult over the early inputs, evaluated once: pairs <<url, result>>.
EarlyResults == {<<u, EarlyResult(u)>> : u \in EarlyInputs}

\* ------------------------------------------------------------------------
\* State
\* ------------------------------------------------------------------------

VARIABLES
    pc,             \* "idle": before the call; "crawl": in the loop of
                    \* _crawl_site_for_instagram; "done": result returned
    original_url,   \* the argument of extract_instagram_info
    result,         \* the dictionary extract_instagram_info returns
    max_depth,      \* self.max_depth
    max_pages,      \* self.max_pages
    visited_urls,   \* self.visited_urls
    urls_to_visit,  \* the frontier, a list of <<url, depth>>
    pages_scanned,  \* the page counter of the crawl
    fetch_log,      \* history, per session.get: <<url, depth, outcome
                    \* ("ok", "failed" or "fault"), whether the page had
                    \* links that the test on the depth left out>>
    world,          \* process_file_advanced: what the site answers for
                    \* each of its URLs
    rows,           \* process_file_advanced: the URL of each row
    extractors,     \* the visited_urls of each AdvancedInstagramExtractor
                    \* that process_row has created
    calls,          \* process_file_advanced: per worker, the locals of its
                    \* call of extract_instagram_info
    scan            \* a call of _find_instagram_in_page on its own: its
                    \* arguments and, once it has returned, what it returned

\* The variables of one call of extract_instagram_info, those of the
\* thread pool of process_file_advanced, and all of them.
callVars == <<pc, original_url, result, visited_urls, urls_to_visit,
              pages_scanned, fetch_log>>

poolVars == <<world, rows, extractors, calls>>

vars == <<pc, original_url, result, max_depth, max_pages, visited_urls,
          urls_to_visit, pages_scanned, fetch_log, world, rows, extractors,
          calls, scan>>

\* No call of _find_instagram_in_page on its own.
NoScan == [pc |-> "none", html |-> <<>>, page_url |-> <<>>,
           instagram_info |-> NoInfo]

\* The crawl session held by the variables.
Session ==
    [visited_urls  |-> visited_urls,
     urls_to_visit |-> urls_to_visit,
     pages_scanned |-> pages_scanned,
     returned      |-> FALSE,
     raised        |-> FALSE,
     info          |-> NoInfo]

SetSession(session) ==
    /\ visited_urls' = session.visited_urls
    /\ urls_to_visit' = session.urls_to_visit
    /\ pages_scanned' = session.pages_scanned

\* __init__ (lines 47-54) and the state before the call.
Init ==
    /\ pc = "idle"
    /\ original_url \in Inputs
    /\ result = InitialResult
    /\ max_depth \in 0..MaxDepthBound
    /\ max_pages \in 1..MaxPagesBound
    \* steps 1 and 2 read neither max_depth nor max_pages: one extractor
    \* stands for all when the input is settled there
    /\ original_url \in EarlyInputs =>
           max_depth = MaxDepthBound /\ max_pages = MaxPagesBound
    /\ visited_urls = {}
    /\ urls_to_visit = <<>>
    /\ pages_scanned = 0
    /\ fetch_log = <<>>
    /\ world = <<>>
    /\ rows = <<>>
    /\ extractors = <<>>
    /\ calls = <<>>
    /\ scan = NoScan

\* extract_instagram_info up to its return (steps 1 and 2) or up to the
\* first test of the crawl loop (step 3).
extract_instagram_info ==
    /\ pc = "idle"
    /\ IF original_url \in EarlyInputs
       THEN /\ result' = (CHOOSE p \in EarlyResults : p[1] = original_url)[2]
            /\ pc' = "done"
            /\ UNCHANGED <<visited_urls, urls_to_visit, pages_scanned>>
       ELSE /\ SetSession(StartSession(CleanInput(original_url)))
            /\ pc' = "crawl"
            /\ UNCHANGED result
    /\ UNCHANGED <<original_url, max_depth, max_pages, fetch_log, poolVars, scan>>

\* A turn of the loop that fetches: session.get answers with response.
Fetch(response) ==
    LET entry == PoppedEntry(urls_to_visit)
        after == LoopBody(Session, max_depth, response)
        outcome == IF response.kind # "ok" THEN "failed"
                   ELSE IF response.fault THEN "fault" ELSE "ok"
    IN  /\ pc = "crawl"
        /\ LoopCondition(Session, max_pages)
        /\ ~SkipsEntry(Session, max_depth)
        /\ SetSession(after)
        /\ fetch_log' = Append(fetch_log,
                                <<entry[1], entry[2], outcome,
                                  entry[2] >= max_depth
                                      /\ response.new_links # <<>>>>)
        /\ IF after.raised
           THEN /\ result' = CrawlError
                /\ pc' = "done"
           ELSE IF after.returned
           THEN /\ result' = CrawlResult(after.info)
                /\ pc' = "done"
           ELSE UNCHANGED <<result, pc>>
        /\ UNCHANGED <<original_url, max_depth, max_pages, poolVars, scan>>

\* A variant of SkipEntry: the turn ends with the entry still in the
\* frontier.
SkipEntryKeepsEntry ==
    /\ pc = "crawl"
    /\ LoopCondition(Session, max_pages)
    /\ SkipsEntry(Session, max_depth)
    /\ UNCHANGED vars

\* The popped URL was visited already, or lies too deep: no fetch.
SkipEntry ==
    /\ pc = "crawl"
    /\ LoopCondition(Session, max_pages)
    /\ SkipsEntry(Session, max_depth)
    /\ SetSession(LoopBody(Session, max_depth, CHOOSE r \in FailedResponses : TRUE))
    /\ UNCHANGED <<pc, original_url, result, max_depth, max_pages, fetch_log,
                   poolVars, scan>>

\* session.get raises, or answers with a status other than 200.
FetchFails == pc = "crawl" /\ \E response \in FailedResponses : Fetch(response)

\* The page is fetched and counted; parsing or scanning it raises.
ScanFaults == pc = "crawl" /\ \E response \in FaultResponses : Fetch(response)

\* The page is fetched and scanned: a handle is found and returned, or the
\* links of the page are enqueued.
FetchScans == pc = "crawl" /\ \E response \in OkResponses : Fetch(response)

\* The loop condition fails: return None, and the result is built.
LoopEnds ==
    /\ pc = "crawl"
    /\ ~LoopCondition(Session, max_pages)
    /\ result' = CrawlResult(NoInfo)
    /\ pc' = "done"
    /\ UNCHANGED <<original_url, max_depth, max_pages, visited_urls, urls_to_visit,
                   pages_scanned, fetch_log, poolVars, scan>>

Next ==
    \/ extract_instagram_info
    \/ SkipEntry
    \/ FetchFails
    \/ ScanFaults
    \/ FetchScans
    \/ LoopEnds

Spec == Init /\ [][Next]_vars

\* The call runs on: no statement of the loop waits without end
\* (session.get has timeout=10, time.sleep(0.5) returns).
SpecFair == Spec /\ WF_vars(Next)

\* The same call, made with a labelled handle as its input.
InitLabel ==
    /\ pc = "idle"
    /\ original_url \in LabelInputs
    /\ result = InitialResult
    /\ max_depth \in 0..MaxDepthBound
    /\ max_pages \in 1..MaxPagesBound
    /\ visited_urls = {}
    /\ urls_to_visit = <<>>
    /\ pages_scanned = 0
    /\ fetch_log = <<>>
    /\ world = <<>>
    /\ rows = <<>>
    /\ extractors = <<>>
    /\ calls = <<>>
    /\ scan = NoScan

SpecLabel == InitLabel /\ [][Next]_vars

\* ------------------------------------------------------------------------
\* process_file_advanced: the rows processed by a pool of threads
\* ------------------------------------------------------------------------

Workers == 1..NumWorkers

\* The pages of the site the rows name.
PoolUrls == {SiteUrl(0), SiteUrl(1)}

\* What the site can answer for the URL u, the same answer to every thread:
\* the fetch raises, or the page is scanned and holds a profile link, or it
\* holds at most one link, to a page of the site.
WorldResponses(u) ==
    {r \in FailedResponses : r.kind = "exception"}
    \cup {r \in OkResponses :
             /\ r.info # NoInfo =>
                    (r.url = u /\ r.info[1].status = "found_in_site")
             /\ Len(r.new_links) <= 1
             /\ \A i \in 1..Len(r.new_links) : r.new_links[i] \in PoolUrls}

Worlds == {f \in [PoolUrls -> FailedResponses \cup OkResponses] :
              \A u \in PoolUrls : f[u] \in WorldResponses(u)}

\* A variant of ExtractorOf: one extractor created before the pool starts
\* and used for every row.
SharedExtractor(w) == 1

\* extractor = AdvancedInstagramExtractor(max_depth=max_depth) in
\* process_row: every row gets an extractor of its own.
ExtractorOf(w) == w

\* The crawl session the call of worker w works on: the visited_urls of its
\* extractor, and its own locals.
WorkerSession(w) ==
    [visited_urls  |-> extractors[ExtractorOf(w)],
     urls_to_visit |-> calls[w].urls_to_visit,
     pages_scanned |-> calls[w].pages_scanned,
     returned      |-> FALSE,
     raised        |-> FALSE,
     info          |-> NoInfo]

\* The result extract_instagram_info builds when the crawl has ended as
\* session tells.
Outcome(session) ==
    IF session.raised THEN CrawlError ELSE CrawlResult(session.info)

\* The crawl of start_url on the site, by a caller that nothing interleaves
\* with: the session after n turns of the loop, and the result.
RECURSIVE AloneAfter(_, _, _, _, _)
AloneAfter(site, start_url, depth_limit, page_limit, n) ==
    IF n = 0 THEN StartSession(start_url)
    ELSE LET Turn(before) ==
                 IF LoopCondition(before, page_limit)
                 THEN LoopBody(before, depth_limit,
                               site[PoppedEntry(before.urls_to_visit)[1]])
                 ELSE before
         IN  Turn(AloneAfter(site, start_url, depth_limit, page_limit, n - 1))

RECURSIVE AloneToEnd(_, _, _, _)
AloneToEnd(site, session, depth_limit, page_limit) ==
    IF LoopCondition(session, page_limit)
    THEN AloneToEnd(site,
                    LoopBody(session, depth_limit,
                             site[PoppedEntry(session.urls_to_visit)[1]]),
                    depth_limit, page_limit)
    ELSE session

AloneResult(site, start_url, depth_limit, page_limit) ==
    Outcome(AloneToEnd(site, StartSession(start_url), depth_limit, page_limit))

\* The rows name pages of the site; process_file_advanced passes its
\* max_depth to every extractor and leaves max_pages to its default.
InitPool ==
    /\ world \in Worlds
    /\ rows \in [Workers -> PoolUrls]
    /\ max_depth \in 0..MaxDepthBound
    /\ max_pages = MaxPagesBound
    /\ extractors = [e \in Workers |-> {}]
    /\ calls = [w \in Workers |->
                   [pc |-> "idle", urls_to_visit |-> <<>>, pages_scanned |-> 0,
                    turns |-> 0, result |-> InitialResult]]
    /\ pc = "idle"
    /\ original_url = <<>>
    /\ result = InitialResult
    /\ visited_urls = {}
    /\ urls_to_visit = <<>>
    /\ pages_scanned = 0
    /\ fetch_log = <<>>
    /\ scan = NoScan

\* The state of the pool after worker w has worked on session for a turn.
SetWorkerSession(w, session, turns) ==
    /\ extractors' = [extractors EXCEPT ![ExtractorOf(w)] = session.visited_urls]
    /\ calls' = [calls EXCEPT
                    ![w] = [pc |-> IF session.returned \/ session.raised
                                   THEN "done" ELSE "crawl",
                            urls_to_visit |-> session.urls_to_visit,
                            pages_scanned |-> session.pages_scanned,
                            turns |-> turns,
                            result |-> IF session.returned \/ session.raised
                                       THEN Outcome(session)
                                       ELSE calls[w].result]]

\* process_row in a thread of the pool: the extractor is created and
\* extract_instagram_info runs up to the first test of the crawl loop.
process_row(w) ==
    /\ calls[w].pc = "idle"
    /\ SetWorkerSession(w, StartSession(CleanInput(rows[w])), 0)
    /\ UNCHANGED <<world, rows, max_depth, max_pages, callVars, scan>>

\* One turn of the crawl loop in the thread of worker w.
CrawlTurn(w) ==
    /\ calls[w].pc = "crawl"
    /\ LoopCondition(WorkerSession(w), max_pages)
    /\ SetWorkerSession(
           w,
           LoopBody(WorkerSession(w), max_depth,
                    world[PoppedEntry(calls[w].urls_to_visit)[1]]),
           calls[w].turns + 1)
    /\ UNCHANGED <<world, rows, max_depth, max_pages, callVars, scan>>

\* The loop of worker w ends without a handle and the call returns.
CrawlReturns(w) ==
    /\ calls[w].pc = "crawl"
    /\ ~LoopCondition(WorkerSession(w), max_pages)
    /\ calls' = [calls EXCEPT ![w].pc = "done",
                              ![w].result = CrawlResult(NoInfo)]
    /\ UNCHANGED <<world, rows, extractors, max_depth, max_pages, callVars, scan>>

NextPool ==
    \/ \E w \in Workers : process_row(w)
    \/ \E w \in Workers : CrawlTurn(w)
    \/ \E w \in Workers : CrawlReturns(w)

SpecPar == InitPool /\ [][NextPool]_vars

\* ------------------------------------------------------------------------
\* _find_instagram_in_page on its own
\* ------------------------------------------------------------------------

\* A page of the site is about to be scanned.
InitScan ==
    /\ scan \in {[pc |-> "idle", html |-> p, page_url |-> u,
                  instagram_info |-> NoInfo] : p \in Pages, u \in SiteUrls}
    /\ pc = "idle"
    /\ original_url = <<>>
    /\ result = InitialResult
    /\ max_depth = MaxDepthBound
    /\ max_pages = MaxPagesBound
    /\ visited_urls = {}
    /\ urls_to_visit = <<>>
    /\ pages_scanned = 0
    /\ fetch_log = <<>>
    /\ world = <<>>
    /\ rows = <<>>
    /\ extractors = <<>>
    /\ calls = <<>>

\* The call of _find_instagram_in_page, from its first line to its return.
ScanPage ==
    /\ scan.pc = "idle"
    /\ scan' = [scan EXCEPT
                   !.pc = "done",
                   !.instagram_info =
                       _find_instagram_in_page(scan.html, scan.page_url)]
    /\ UNCHANGED <<max_depth, max_pages, callVars, poolVars>>

NextScan == ScanPage

SpecScan == InitScan /\ [][NextScan]_vars

\* ------------------------------------------------------------------------
\* Properties of one call of extract_instagram_info
\* ------------------------------------------------------------------------

\* The outcome logged for a session.get that is a fetch failure: it raised,
\* or the status of the response is not 200.
FetchFailures == {"failed"}

\* The found_* kinds of status.
FoundStatuses ==
    {"found_direct", "found_from_text", "found_in_site", "found_in_link_text",
     "found_in_page_text", "found_in_meta_tag", "found_in_social_section"}

\* The StatusCode enumeration of the specification.
StatusCode ==
    FoundStatuses \cup
    {"empty", "invalid_username", "invalid_username_from_text",
     "invalid_username_crawled", "not_found_after_scan", "crawl_error"}

\* The number of pages of the session fetched with status 200 and scanned
\* to the end.
RECURSIVE PagesFetchedAndScanned(_)
PagesFetchedAndScanned(log) ==
    IF log = <<>> THEN 0
    ELSE (IF Head(log)[3] = "ok" THEN 1 ELSE 0)
         + PagesFetchedAndScanned(Tail(log))

\* C1: within one crawl session no absolute URL is fetched more than once,
\* whatever the link graph and whatever the outcomes of the fetches.
C1_NoUrlFetchedTwice ==
    \A i, j \in 1..Len(fetch_log) :
        fetch_log[i][1] = fetch_log[j][1] => i = j

\* C2: within one crawl session the number of fetch attempts (successful,
\* answered with another status, or raising) never exceeds max_pages.
C2_FetchAttemptsWithinMaxPages == Len(fetch_log) <= max_pages

\* C3: every frontier entry has a depth between 0 and max_depth, and no
\* page deeper than max_depth is fetched.
C3_DepthWithinMaxDepth ==
    /\ \A i \in 1..Len(urls_to_visit) :
           urls_to_visit[i][2] >= 0 /\ urls_to_visit[i][2] <= max_depth
    /\ \A i \in 1..Len(fetch_log) :
           fetch_log[i][2] >= 0 /\ fetch_log[i][2] <= max_depth

\* A page at depth max_depth (not the start page) was fetched and scanned,
\* it carried links, and the crawl goes on.
C3_Witness ==
    /\ pc = "crawl"
    /\ max_depth >= 1
    /\ \E i \in 1..Len(fetch_log) :
           /\ fetch_log[i][2] = max_depth
           /\ fetch_log[i][3] = "ok"
           /\ fetch_log[i][4]

\* C4: the crawl is breadth-first: the depths of successive fetch attempts
\* never decrease, and the frontier holds its entries in order of depth,
\* none shallower than the last page fetched; so a page at depth 2 is
\* fetched only after every page at depth 1 has been attempted.
C4_BreadthFirst ==
    /\ \A i, j \in 1..Len(fetch_log) :
           i < j => fetch_log[i][2] <= fetch_log[j][2]
    /\ \A i, j \in 1..Len(urls_to_visit) :
           i < j => urls_to_visit[i][2] <= urls_to_visit[j][2]
    /\ \A i \in 1..Len(fetch_log) : \A j \in 1..Len(urls_to_visit) :
           fetch_log[i][2] <= urls_to_visit[j][2]

\* The start page linked to two pages, both were attempted, and then a page
\* at depth 2 was fetched.
C4_Witness ==
    /\ Len(fetch_log) >= 4
    /\ fetch_log[1][2] = 0
    /\ fetch_log[2][2] = 1
    /\ fetch_log[3][2] = 1
    /\ fetch_log[2][1] # fetch_log[3][1]
    /\ fetch_log[4][2] = 2

\* C5: the result extract_instagram_info returns has a non-empty username
\* exactly when its status is one of the found_* kinds.
C5_UsernameIffFound ==
    pc = "done" =>
        (result.instagram_username # <<>> <=> result.status \in FoundStatuses)

\* A direct link whose username the validator rejects has been answered.
C5_Witness ==
    /\ pc = "done"
    /\ result.status = "invalid_username"
    /\ result.instagram_username = <<>>

\* C6, as stated: the status of every result is a member of StatusCode.
C6_StatusInStatusCode == pc = "done" => result.status \in StatusCode

\* C6, amended: the status of every result is a member of StatusCode or is
\* no_instagram, and it is no_instagram exactly for a direct Instagram link
\* from which no username is extracted.
C6_StatusInStatusCodeOrDefault ==
    pc = "done" =>
        /\ result.status \in StatusCode \cup {"no_instagram"}
        /\ result.status = "no_instagram" <=>
               /\ ~IsEmptyInput(original_url)
               /\ _is_direct_instagram_url(CleanInput(original_url))
               /\ _extract_username_from_url(
                      _normalize_instagram_url(CleanInput(original_url)))
                  \in {None, <<>>}

\* A direct link whose only path segment is reserved has been answered.
C6_Witness ==
    /\ pc = "done"
    /\ original_url = InstagramComSlash \o <<"p">>
    /\ result.status = "no_instagram"
    /\ result.instagram_url = HttpsSlashes \o InstagramComSlash \o <<"p">>

\* C7: a crawl that ends without a handle gives not_found_after_scan with
\* pages_scanned equal to the number of pages fetched and scanned.
C7_PagesScannedReported ==
    (pc = "done" /\ fetch_log # <<>> /\ result.status \notin FoundStatuses) =>
        /\ result.status = "not_found_after_scan"
        /\ result.pages_scanned = PagesFetchedAndScanned(fetch_log)

\* C8: a fetch failure never ends the crawl: after one the loop goes on, or
\* it has ended because the frontier is empty or max_pages is reached, with
\* not_found_after_scan and never crawl_error; so a crawl whose only fetch
\* failed answers not_found_after_scan.
C8_FetchFailureNotFatal ==
    (fetch_log # <<>> /\ fetch_log[Len(fetch_log)][3] \in FetchFailures) =>
        /\ result.status # "crawl_error"
        /\ \/ pc = "crawl"
           \/ /\ pc = "done"
              /\ result.status = "not_found_after_scan"
              /\ ~LoopCondition(Session, max_pages)

\* The fetch of a page failed while the frontier held another entry, that
\* entry was fetched next, and the crawl ended on a later failure.
C8_Witness ==
    /\ pc = "done"
    /\ result.status = "not_found_after_scan"
    /\ Len(fetch_log) >= 3
    /\ fetch_log[2][3] = "failed"
    /\ fetch_log[3][3] = "ok"
    /\ fetch_log[Len(fetch_log)][3] \in FetchFailures

\* C10: a fault raised while parsing or scanning a fetched page ends the
\* crawl session with the status crawl_error.
C10_ScanFaultIsCrawlError ==
    (\E i \in 1..Len(fetch_log) : fetch_log[i][3] = "fault") =>
        pc = "done" /\ result.status = "crawl_error"

\* ------------------------------------------------------------------------
\* Properties of the thread pool
\* ------------------------------------------------------------------------

\* C9: under every interleaving of the calls of the workers, the visited
\* set, the frontier and the page counter of each call are, turn by turn,
\* those of the same call run alone, and each result equals the result of
\* the call run alone.
C9_OutcomeAsWhenRunAlone ==
    \A w \in Workers :
        /\ calls[w].pc = "crawl" =>
               LET alone == AloneAfter(world, CleanInput(rows[w]), max_depth,
                                       max_pages, calls[w].turns)
               IN  /\ extractors[ExtractorOf(w)] = alone.visited_urls
                   /\ calls[w].urls_to_visit = alone.urls_to_visit
                   /\ calls[w].pages_scanned = alone.pages_scanned
        /\ calls[w].pc = "done" =>
               calls[w].result = AloneResult(world, CleanInput(rows[w]),
                                             max_depth, max_pages)

\* Two calls crawl the same site at the same time: each is inside its loop
\* with pages visited and entries left in its frontier.
C9_Witness ==
    /\ rows[1] = rows[2]
    /\ \A w \in {1, 2} :
           /\ calls[w].pc = "crawl"
           /\ calls[w].turns >= 1
           /\ extractors[ExtractorOf(w)] # {}
           /\ calls[w].urls_to_visit # <<>>

\* C11: an input that is not blank, is not a direct Instagram URL and in which
\* _extract_username_from_text finds a candidate, the labelled forms
\* 'ig: handle', 'instagram: handle' and 'insta: handle' included, is settled
\* at the text step: the crawl is never started, and the status returned is
\* found_from_text or invalid_username_from_text.
C11_TextCandidateSettledAtTextStep ==
    (/\ ~IsEmptyInput(original_url)
     /\ ~_is_direct_instagram_url(original_url)
     /\ ~_is_direct_instagram_url(CleanInput(original_url))
     /\ _extract_username_from_text(original_url) # None)
    => /\ pc # "crawl"
       /\ fetch_log = <<>>
       /\ pc = "done" =>
              result.status \in {"found_from_text", "invalid_username_from_text"}

\* C12: for an input '@h' where h is a valid handle (1 to 30 characters of
\* [A-Za-z0-9_.] that _is_valid_instagram_username accepts), the result has
\* status found_direct, username exactly h, URL 'https://www.instagram.com/h/',
\* pages_scanned 0 and an empty found_on_page.
C12_AtHandleFoundDirect ==
    (/\ pc = "done"
     /\ original_url # NaN
     /\ Len(original_url) >= 2
     /\ original_url[1] = "@"
     /\ \A i \in 2..Len(original_url) : original_url[i] \in HandleChars
     /\ Len(original_url) - 1 <= MaxUsernameLen
     /\ _is_valid_instagram_username(Tail(original_url)))
    => /\ result.status = "found_direct"
       /\ result.instagram_username = Tail(original_url)
       /\ result.instagram_url = ProfileUrl(Tail(original_url))
       /\ result.pages_scanned = 0
       /\ result.found_on_page = <<>>

\* C13: every crawl session terminates, whatever the links of the site
\* (cycles and pages that keep yielding new links included) and whatever the
\* outcomes of the fetches: the call ends, and a crawl that returns no handle
\* ends with the frontier empty or with pages_scanned at max_pages.
C13_CrawlTerminates ==
    <>(/\ pc = "done"
       /\ (fetch_log # <<>> /\ result.status = "not_found_after_scan")
            => (urls_to_visit = <<>> \/ pages_scanned >= max_pages))

\* A crawl stopped by max_pages with URLs left in the frontier, after a
\* page that linked back to a page fetched before it.
C13_Witness ==
    /\ pc = "done"
    /\ result.status = "not_found_after_scan"
    /\ pages_scanned = max_pages
    /\ urls_to_visit # <<>>
    /\ \E i \in 1..Len(urls_to_visit) : urls_to_visit[i][1] \in visited_urls

\* True of an anchor whose href is a direct Instagram URL from which a valid
\* username is extracted (the tests of lines 397-400).
HrefYieldsUsername(link, page_url) ==
    LET Valid(username) ==
            /\ username # None
            /\ username # <<>>
            /\ _is_valid_instagram_username(username)
    IN  /\ _is_direct_instagram_url(Strip(link.href))
        /\ Valid(_extract_username_from_url(
                     _normalize_url(Strip(link.href), page_url)))

\* C14: the scan of a page tries the hrefs of the anchors before the texts of
\* the anchors and before every later strategy: when some anchor of the page
\* has an href that is a direct Instagram URL yielding a valid username, the
\* scan returns status found_in_site, wherever the other anchors stand and
\* whatever their text.
C14_HrefBeforeAnchorText ==
    (/\ scan.pc = "done"
     /\ \E i \in 1..Len(scan.html.anchors) :
            HrefYieldsUsername(scan.html.anchors[i], scan.page_url))
    => /\ scan.instagram_info # NoInfo
       /\ scan.instagram_info[1].status = "found_in_site"

\* C15: every handle the crawl returns has passed
\* _is_valid_instagram_username inside _find_instagram_in_page, so the test
\* extract_instagram_info makes again on it never fails: no call returns the
\* status invalid_username_crawled, whatever the input and the site.
C15_NoInvalidUsernameCrawled ==
    /\ result.status # "invalid_username_crawled"
    /\ (pc = "done" /\ fetch_log # <<>> /\ result.instagram_username # <<>>)
         => _is_valid_instagram_username(result.instagram_username)

\* A crawl has returned a handle found after the page text of the same page
\* gave no valid one, and extract_instagram_info has accepted it.
C15_Witness ==
    /\ pc = "done"
    /\ fetch_log # <<>>
    /\ result.status = "found_in_social_section"
    /\ result.pages_scanned >= 2
    /\ _is_valid_instagram_username(result.instagram_username)

\* C16: at every point of a crawl session pages_scanned is the number of URLs
\* in visited_urls: a URL enters visited_urls exactly when its fetch answers
\* 200 and the counter is incremented; a URL whose fetch fails is neither
\* counted nor marked as visited.
C16_PagesScannedIsVisitedCount ==
    LET answered == {i \in 1..Len(fetch_log) :
                        fetch_log[i][3] \notin FetchFailures}
    IN  /\ pages_scanned = Cardinality(visited_urls)
        /\ pages_scanned = Cardinality(answered)
        /\ visited_urls = {fetch_log[i][1] : i \in answered}

\* A crawl in progress after two pages answered 200 and one fetch failed,
\* the URL of the failed fetch not being marked as visited.
C16_Witness ==
    /\ pc = "crawl"
    /\ pages_scanned >= 2
    /\ \E i \in 1..Len(fetch_log) :
           /\ fetch_log[i][3] \in FetchFailures
           /\ fetch_log[i][1] \notin visited_urls

====
